---- MODULE Spec2Model ----
(***************************************************************************)
(* A model of jira-cli (src/main.go): the pure helpers (sprintName,        *)
(* formatPoints, formatIssuesBySprint, findActiveSprint, the matching of   *)
(* transitionIssue, the line parsing of pickFromList) and the four flows   *)
(* main dispatches to (report, direct transition, interactive, move).      *)
(*                                                                         *)
(* Text that the code folds, trims, parses or upper-cases is a sequence of *)
(* one-character strings, so that the conversions are computed character  *)
(* by character; text that is only displayed is a TLA+ string.  Story      *)
(* points are decimals with one fractional digit, held as an integer       *)
(* number of tenths (2.5 is 25); the sums and the p + 0.5 of the pools     *)
(* below are exact in float64 as well.                                     *)
(***************************************************************************)
EXTENDS Integers, Sequences, FiniteSets, TLC

VARIABLES
    mode,         \* which branch of main runs: "report", "direct", "interactive", "move"
    pc,           \* the position of the flow
    argKey,       \* the issue key given on the command line ("" as << >>)
    argStatus,    \* the target status given on the command line
    reqs,         \* every HTTP exchange attempted, in order, with its outcome
    out,          \* what was written to standard output, in order
    prompts,      \* the prompts pickFromList has shown, each with the line it read
    list,         \* selectIssue: the filtered issues offered in the prompt
    issue,        \* the issue selectIssue returned (the snapshot of its fetch)
    status,       \* the target status of transitionIssue
    key,          \* the issue key the current repository call works on
    transitions,  \* transitionIssue: the transitions fetched, while it runs
    match,        \* transitionIssue: the matched transition, the one submitted
    issues,       \* the issues last fetched, while the function that fetched them runs
    sprint,       \* moveIssueToCurrentSprint: the sprint findActiveSprint returned
    err,          \* the error the flow ended with
    exit,         \* the exit code of the process once it ended
    groups,       \* formatIssuesBySprint: the map built by the grouping loop
    runs          \* the executions of formatIssuesBySprint on `issues`, in order

vars == <<mode, pc, argKey, argStatus, reqs, out, prompts, list, issue, status,
          key, transitions, match, issues, sprint, err, exit, groups, runs>>

Nil == [kind |-> "nil"]

-----------------------------------------------------------------------------
(* Bounds of the model. *)

MaxIssues == 2

MaxSprints == 2

MaxTransitions == 2

MaxRuns == 2

-----------------------------------------------------------------------------
(* Text. *)

UpperChars == <<"A","B","C","D","E","F","G","H","I","J","K","L","M",
                "N","O","P","Q","R","S","T","U","V","W","X","Y","Z">>

LowerChars == <<"a","b","c","d","e","f","g","h","i","j","k","l","m",
                "n","o","p","q","r","s","t","u","v","w","x","y","z">>

DigitChars == <<"0","1","2","3","4","5","6","7","8","9">>

SpaceChars == {" ", "\t", "\n", "\r"}

IndexIn(c, chars) ==
    IF \E i \in 1..Len(chars) : chars[i] = c
    THEN CHOOSE i \in 1..Len(chars) : chars[i] = c
    ELSE 0

\* The letters with two cases, each with its other case.
LowerOf == [c \in { UpperChars[i] : i \in 1..26 } |-> LowerChars[IndexIn(c, UpperChars)]]

UpperOf == [c \in { LowerChars[i] : i \in 1..26 } |-> UpperChars[IndexIn(c, LowerChars)]]

FoldChar(c) == IF c \in DOMAIN LowerOf THEN LowerOf[c] ELSE c

UpperChar(c) == IF c \in DOMAIN UpperOf THEN UpperOf[c] ELSE c

EqualFold(s, t) ==
    /\ Len(s) = Len(t)
    /\ \A i \in 1..Len(s) : FoldChar(s[i]) = FoldChar(t[i])

ToUpper(s) == [i \in 1..Len(s) |-> UpperChar(s[i])]

RECURSIVE Text(_)
Text(s) == IF s = << >> THEN "" ELSE s[1] \o Text(Tail(s))

RECURSIVE TrimLeft(_)
TrimLeft(s) ==
    IF s # << >> /\ s[1] \in SpaceChars THEN TrimLeft(Tail(s)) ELSE s

RECURSIVE TrimRight(_)
TrimRight(s) ==
    IF s # << >> /\ s[Len(s)] \in SpaceChars
    THEN TrimRight(SubSeq(s, 1, Len(s) - 1))
    ELSE s

TrimSpace(s) == TrimRight(TrimLeft(s))

RECURSIVE DigitsValue(_)
DigitsValue(s) ==
    IF s = << >> THEN 0
    ELSE 10 * DigitsValue(SubSeq(s, 1, Len(s) - 1)) + (IndexIn(s[Len(s)], DigitChars) - 1)

\* strconv.Atoi: an optional sign and at least one decimal digit, nothing else.
AtoiOk(s) ==
    LET d == IF s # << >> /\ s[1] \in {"+", "-"} THEN Tail(s) ELSE s
    IN  d # << >> /\ \A i \in 1..Len(d) : IndexIn(d[i], DigitChars) > 0

Atoi(s) ==
    IF s[1] = "-" THEN 0 - DigitsValue(Tail(s))
    ELSE IF s[1] = "+" THEN DigitsValue(Tail(s))
    ELSE DigitsValue(s)

RECURSIVE NatText(_)
NatText(n) ==
    IF n < 10 THEN DigitChars[n + 1]
    ELSE NatText(n \div 10) \o DigitChars[(n % 10) + 1]

Itoa(n) == IF n < 0 THEN "-" \o NatText(0 - n) ELSE NatText(n)

RECURSIVE Join(_, _)
Join(strs, sep) ==
    IF strs = << >> THEN ""
    ELSE IF Len(strs) = 1 THEN strs[1]
    ELSE strs[1] \o sep \o Join(Tail(strs), sep)

-----------------------------------------------------------------------------
(* The data the tracker returns. *)

sActive == <<"a","c","t","i","v","e">>

sActiveCap == <<"A","c","t","i","v","e">>

sClosed == <<"c","l","o","s","e","d">>

Sprint(id, name, state) == [id |-> id, name |-> name, state |-> state]

SprintPool ==
    { Sprint(1, "Sprint 1", sClosed),
      Sprint(2, "Sprint 2", sActive),
      Sprint(3, "Sprint 3", sActiveCap) }

\* The sequences of at most n elements of S, none repeated.
InjSeqs(S, n) ==
    UNION { { f \in [1..k -> S] : \A i, j \in 1..k : i # j => f[i] # f[j] } : k \in 0..n }

SprintLists == InjSeqs(SprintPool, MaxSprints)

KeyAt(i) == <<"A", "B", "-", DigitChars[i + 1]>>

JiraIssue(i, points, sprints) ==
    [ key     |-> KeyAt(i),
      summary |-> "task " \o DigitChars[i + 1],
      type    |-> "Story",
      status  |-> IF i % 2 = 1 THEN "Open" ELSE "",
      points  |-> points,
      sprints |-> sprints ]

\* 0, 0.3, 2.4, 2.5 and -2.4 points.
ReportPoints == {0, 3, 24, 25, 0 - 24}

FlowPoints == {25}

\* The search results of at most MaxIssues issues; the i-th issue has the i-th key.
IssueLists(points) ==
    UNION { { [i \in 1..k |-> JiraIssue(i, f[i][1], f[i][2])] :
              f \in [1..k -> points \X SprintLists] } : k \in 0..MaxIssues }

FlowIssueLists == IssueLists(FlowPoints)

-----------------------------------------------------------------------------
(* Aggregation and formatting. *)

sprintName(s) ==
    IF Len(s) = 0 THEN "Backlog"
    ELSE IF \E i \in 1..Len(s) : s[i].state = sActive
         THEN s[CHOOSE i \in 1..Len(s) :
                   /\ s[i].state = sActive
                   /\ \A j \in 1..(i - 1) : s[j].state # sActive].name
         ELSE s[Len(s)].name

\* int(x) of a float64 x given in tenths: truncation toward zero.
IntOfTenths(x) == IF x >= 0 THEN x \div 10 ELSE 0 - ((0 - x) \div 10)

formatPoints(p) == IF p = 0 THEN "-" ELSE Itoa(IntOfTenths(p + 5))

RECURSIVE groupLoop(_, _)
groupLoop(is, n) ==
    IF n = 0 THEN [x \in {} |-> << >>]
    ELSE LET g  == groupLoop(is, n - 1)
             nm == sprintName(is[n].sprints)
         IN  IF nm \in DOMAIN g
             THEN [g EXCEPT ![nm] = Append(@, is[n])]
             ELSE g @@ (nm :> <<is[n]>>)

RECURSIVE totalPoints(_)
totalPoints(l) ==
    IF l = << >> THEN 0 ELSE totalPoints(SubSeq(l, 1, Len(l) - 1)) + l[Len(l)].points

headerLine(label, l) ==
    "Sprint: " \o label \o " (" \o Itoa(Len(l)) \o " issues, "
        \o formatPoints(totalPoints(l)) \o " pts)"

issueLine(ji) ==
    "  " \o Text(ji.key) \o "\t" \o formatPoints(ji.points) \o "\t" \o ji.status
         \o "\t" \o ji.type \o "\t" \o ji.summary

groupLines(label, l) ==
    <<headerLine(label, l)>> \o [i \in 1..Len(l) |-> issueLine(l[i])] \o <<"">>

RECURSIVE reportLines(_, _)
reportLines(g, order) ==
    IF order = << >> THEN << >>
    ELSE groupLines(order[1], g[order[1]]) \o reportLines(g, Tail(order))

\* The orders in which `range groups` may visit the keys of a Go map: any.
MapOrders(g) ==
    LET n == Cardinality(DOMAIN g)
    IN  { f \in [1..n -> DOMAIN g] : \A i, j \in 1..n : i # j => f[i] # f[j] }

formatIssuesBySprint(is, order) == Join(reportLines(groupLoop(is, Len(is)), order), "\n")

-----------------------------------------------------------------------------
(* The plain report, run MaxRuns times on one search result.               *)

\* One execution of formatIssuesBySprint on `is`, the map visited in `order`:
\* what each step of it computed.
renderRun(is, order) ==
    LET g == groupLoop(is, Len(is))
    IN  [ order   |-> order,
          labels  |-> [i \in 1..Len(is) |-> sprintName(is[i].sprints)],
          totals  |-> [l \in DOMAIN g |-> totalPoints(g[l])],
          headers |-> [k \in 1..Len(order) |-> headerLine(order[k], g[order[k]])],
          shown   |-> { <<totalPoints(g[l]), formatPoints(totalPoints(g[l]))>> : l \in DOMAIN g }
                          \cup { <<is[i].points, formatPoints(is[i].points)>> : i \in 1..Len(is) },
          lines   |-> reportLines(g, order),
          text    |-> formatIssuesBySprint(is, order) ]

InitReport ==
    /\ mode = "report"
    /\ pc = "start"
    /\ argKey = << >>
    /\ argStatus = << >>
    /\ reqs = << >>
    /\ out = << >>
    /\ prompts = << >>
    /\ list = << >>
    /\ issue = Nil
    /\ status = << >>
    /\ key = << >>
    /\ transitions = << >>
    /\ match = Nil
    /\ issues \in IssueLists(ReportPoints)
    /\ sprint = Nil
    /\ err = Nil
    /\ exit = 0 - 1
    /\ groups = << >>
    /\ runs = << >>

Render ==
    /\ Len(runs) < MaxRuns
    /\ groups' = groupLoop(issues, Len(issues))
    /\ \E order \in MapOrders(groups') :
           runs' = Append(runs, renderRun(issues, order))
    /\ UNCHANGED <<mode, pc, argKey, argStatus, reqs, out, prompts, list, issue, status,
                   key, transitions, match, issues, sprint, err, exit>>

NextReport == Render

SpecReport == InitReport /\ [][NextReport]_vars

-----------------------------------------------------------------------------
(* Claims about the report. *)

ActiveWord == <<"a","c","t","i","v","e">>

\* Whether `label` is the effective sprint label of the sprint list `s` as the
\* specification defines it: "Backlog" for no sprint, the name of a sprint whose
\* state is "active" in any letter case when there is one, else the last name.
IsEffectiveLabel(s, label) ==
    IF Len(s) = 0 THEN label = "Backlog"
    ELSE IF \E i \in 1..Len(s) : EqualFold(s[i].state, ActiveWord)
         THEN \E i \in 1..Len(s) : EqualFold(s[i].state, ActiveWord) /\ label = s[i].name
         ELSE label = s[Len(s)].name

\* C2: the label sprintName gives every issue is "Backlog" for an empty sprint
\* list, the name of the sprint whose state is "active" compared
\* case-insensitively when there is one, and the name of the last sprint otherwise.
C2_LabelIsEffective ==
    \A r \in 1..Len(runs) : \A i \in 1..Len(issues) :
        IsEffectiveLabel(issues[i].sprints, runs[r].labels[i])

\* C6: two executions of formatIssuesBySprint on the same ordered list of
\* issues give the same sequence of group headers and the same report text.
C6_ReportDeterministic ==
    \A r, q \in 1..Len(runs) :
        /\ runs[r].headers = runs[q].headers
        /\ runs[r].text = runs[q].text

RECURSIVE SumOfPoints(_, _)
SumOfPoints(is, idx) ==
    IF idx = {} THEN 0
    ELSE LET i == CHOOSE i \in idx : TRUE
         IN  is[i].points + SumOfPoints(is, idx \ {i})

RECURSIVE SumOfLengths(_, _)
SumOfLengths(g, ls) ==
    IF ls = {} THEN 0
    ELSE LET l == CHOOSE l \in ls : TRUE
         IN  Len(g[l]) + SumOfLengths(g, ls \ {l})

InGroup(g, l, ji) == \E j \in 1..Len(g[l]) : g[l][j] = ji

\* C7: the grouping partitions the issues: every issue is in exactly one group,
\* the group of its effective sprint label; the groups' issue counts add up to
\* the number of issues; each group's total is the sum of its own issues' points.
C7_GroupsPartition ==
    \A r \in 1..Len(runs) :
        /\ \A i \in 1..Len(issues) :
              /\ Cardinality({ l \in DOMAIN groups : InGroup(groups, l, issues[i]) }) = 1
              /\ \E l \in DOMAIN groups :
                    /\ InGroup(groups, l, issues[i])
                    /\ IsEffectiveLabel(issues[i].sprints, l)
        /\ SumOfLengths(groups, DOMAIN groups) = Len(issues)
        /\ \A l \in DOMAIN groups :
              runs[r].totals[l] =
                  SumOfPoints(issues, { i \in 1..Len(issues) : InGroup(groups, l, issues[i]) })

\* The value in tenths rounded half-up to the nearest integer: floor(p + 0.5).
RoundHalfUp(p) == (p + 5) \div 10

\* C9: formatPoints renders 0 as "-" and every other value, of an issue or of a
\* group, as the integer nearest to it, halves rounded up.
C9_PointsRoundedHalfUp ==
    \A r \in 1..Len(runs) : \A c \in runs[r].shown :
        c[2] = IF c[1] = 0 THEN "-" ELSE Itoa(RoundHalfUp(c[1]))

-----------------------------------------------------------------------------
(* The flows: transport, repository, resolver, prompts. *)

Transition(id, to) == [id |-> id, to |-> to]

sInProgress == <<"I","n"," ","P","r","o","g","r","e","s","s">>

sDone == <<"D","o","n","e">>

sDoneLower == <<"d","o","n","e">>

sResolvedUpper == <<"R","E","S","O","L","V","E","D">>

TransitionPool ==
    { Transition("11", sInProgress),
      Transition("21", sDone),
      Transition("31", sDoneLower),
      Transition("41", sResolvedUpper) }

TransitionLists == InjSeqs(TransitionPool, MaxTransitions)

\* The menu of interactiveFlow.
statuses ==
    << <<"O","p","e","n">>,
       sInProgress,
       <<"I","n"," ","R","e","v","i","e","w">>,
       <<"I","n"," ","T","e","s","t","i","n","g">>,
       <<"R","e","s","o","l","v","e","d">> >>

\* What the command line gives: keys, and target statuses after the trim.
ArgKeys == { KeyAt(1), <<"a","b","-","9">> }

ArgStatuses == { << >>, sDoneLower, <<"i","n"," ","p","r","o","g","r","e","s","s">>, <<"O","p","e","n">> }

\* What standard input holds when pickFromList reads a line; << >> and a line
\* without its newline are the end of input.
InputLines ==
    { << >>, <<"1">>, <<"\n">>, <<" ", "\t", "\n">>, <<"x", "\n">>, <<"0", "\n">>,
      <<"1", "\n">>, <<" ", "2", " ", "\n">>, <<"3", "\n">>, <<"4", "\r", "\n">>,
      <<"5", "\n">>, <<"6", "\n">>, <<"-", "1", "\n">> }

\* The ways one doJSON exchange ends: done, the request failed in transport, the
\* response status was outside [200,300), or (only when a response body is
\* decoded) the body did not decode.
doJSON(hasOut) ==
    {"ok", "transport", "status"} \cup (IF hasOut THEN {"decode"} ELSE {})

\* isError without the test of the response status and of the decoding.
isErrorLax(res) == res = "transport"

\* Whether doJSON returns an error.
isError(res) == res # "ok"

Request(op, k, arg, res) == [op |-> op, key |-> k, arg |-> arg, res |-> res]

getIssues(res) == Request("search", << >>, 0, res)

getTransitions(k, res) == Request("getTransitions", k, 0, res)

postTransition(k, id, res) == Request("postTransition", k, id, res)

addIssueToSprint(sprintID, k, res) == Request("addIssueToSprint", k, sprintID, res)

\* matchTransition without the break of its loop: the last match wins.
matchTransitionLast(ts, targetStatus) ==
    IF \E i \in 1..Len(ts) : EqualFold(ts[i].to, targetStatus)
    THEN CHOOSE i \in 1..Len(ts) :
            /\ EqualFold(ts[i].to, targetStatus)
            /\ \A j \in (i + 1)..Len(ts) : ~EqualFold(ts[j].to, targetStatus)
    ELSE 0

\* The index of the transition transitionIssue matches; 0 when there is none.
matchTransition(ts, targetStatus) ==
    IF \E i \in 1..Len(ts) : EqualFold(ts[i].to, targetStatus)
    THEN CHOOSE i \in 1..Len(ts) :
            /\ EqualFold(ts[i].to, targetStatus)
            /\ \A j \in 1..(i - 1) : ~EqualFold(ts[j].to, targetStatus)
    ELSE 0

noTransitionError(ts, targetStatus, k) ==
    [ kind |-> "NoSuchTransition",
      text |-> "no transition to \"" \o Text(targetStatus) \o "\" for issue " \o Text(k)
                  \o " (available: " \o Join([i \in 1..Len(ts) |-> Text(ts[i].to)], ", ") \o ")" ]

\* isActive comparing as sprintName does, letter case included.
isActiveExact(sp) == sp.state = sActive

isActive(sp) == EqualFold(sp.state, sActive)

RECURSIVE findActiveSprint(_)
findActiveSprint(is) ==
    IF is = << >> THEN Nil
    ELSE LET s == is[1].sprints
         IN  IF \E i \in 1..Len(s) : isActive(s[i])
             THEN s[CHOOSE i \in 1..Len(s) :
                       /\ isActive(s[i])
                       /\ \A j \in 1..(i - 1) : ~isActive(s[j])]
             ELSE findActiveSprint(Tail(is))

noActiveSprintError == [kind |-> "NoActiveSprint", text |-> "no active sprint found in current issues"]

\* pickFromList without its test for an empty answer: Atoi refuses it.
pickFromListNoCancel(n, line) ==
    IF line = << >> \/ line[Len(line)] # "\n" THEN [kind |-> "readError", idx |-> 0 - 1]
    ELSE LET trim == TrimSpace(line)
         IN  IF ~AtoiOk(trim) \/ Atoi(trim) < 1 \/ Atoi(trim) > n
             THEN [kind |-> "invalid", idx |-> 0 - 1]
             ELSE [kind |-> "index", idx |-> Atoi(trim) - 1]

\* The outcome of pickFromList on n items when the input holds `line`:
\* "readError" and "invalid" end the process, "cancel" is the -1 of the code,
\* "index" carries the index returned.
pickFromList(n, line) ==
    IF line = << >> \/ line[Len(line)] # "\n" THEN [kind |-> "readError", idx |-> 0 - 1]
    ELSE LET trim == TrimSpace(line)
         IN  IF trim = << >> THEN [kind |-> "cancel", idx |-> 0 - 1]
             ELSE IF ~AtoiOk(trim) \/ Atoi(trim) < 1 \/ Atoi(trim) > n
                  THEN [kind |-> "invalid", idx |-> 0 - 1]
                  ELSE [kind |-> "index", idx |-> Atoi(trim) - 1]

fatal(what) == [kind |-> "fatal", text |-> what]

requestError(res) == [kind |-> res, text |-> "jira error"]

\* moveFlow handing no filter to selectIssue.
moveFilterNone(ji) == TRUE

\* The filter moveFlow hands to selectIssue; interactiveFlow hands none.
moveFilter(ji) == Len(ji.sprints) = 0

selectFilter(ji) == IF mode = "move" THEN moveFilter(ji) ELSE TRUE

\* interactiveFlow moving every issue it transitioned.
needsSprintAlways(ji) == TRUE

\* Whether interactiveFlow goes on to moveIssueToCurrentSprint.
needsSprint(ji) == Len(ji.sprints) = 0

\* fmt.Println(formatIssuesBySprint(issues)): the number of lines printed (the
\* same in every order the map is visited in).
printReport(is) ==
    LET g == groupLoop(is, Len(is))
    IN  [ kind |-> "report",
          lines |-> Len(reportLines(g, CHOOSE order \in MapOrders(g) : TRUE)) ]

Init ==
    /\ mode \in {"report", "direct", "interactive", "move"}
    /\ pc = "start"
    /\ argKey \in IF mode = "direct" THEN ArgKeys
                  ELSE IF mode = "move" THEN ArgKeys \cup {<< >>}
                  ELSE {<< >>}
    /\ argStatus \in IF mode = "direct" THEN ArgStatuses ELSE {<< >>}
    /\ reqs = << >>
    /\ out = << >>
    /\ prompts = << >>
    /\ list = << >>
    /\ issue = Nil
    /\ status = << >>
    /\ key = << >>
    /\ transitions = << >>
    /\ match = Nil
    /\ issues = << >>
    /\ sprint = Nil
    /\ err = Nil
    /\ exit = 0 - 1
    /\ groups = << >>
    /\ runs = << >>

\* log.Fatal(err), log.Fatalf(...): the process ends with exit code 1.
Fail(e) ==
    /\ pc' = "done"
    /\ err' = e
    /\ exit' = 1

\* The flow returned nil: main returns, exit code 0.
Succeed ==
    /\ pc' = "done"
    /\ exit' = 0
    /\ UNCHANGED err

\* main without arguments.
MainReport ==
    /\ mode = "report"
    /\ pc = "start"
    /\ \E res \in doJSON(TRUE) :
        /\ reqs' = Append(reqs, getIssues(res))
        /\ \/ /\ ~isError(res)
              /\ \E is \in FlowIssueLists :
                    /\ issues' = is
                    /\ out' = Append(out, printReport(is))
              /\ Succeed
           \/ /\ isError(res)
              /\ Fail(requestError(res))
              /\ UNCHANGED <<issues, out>>
    /\ UNCHANGED <<mode, argKey, argStatus, prompts, list, issue, status, key,
                   transitions, match, sprint, groups, runs>>

\* main with KEY STATUS...
MainDirect ==
    /\ mode = "direct"
    /\ pc = "start"
    /\ \/ /\ argStatus = << >>
          /\ Fail(fatal("missing target status"))
          /\ UNCHANGED <<key, status>>
       \/ /\ argStatus # << >>
          /\ key' = argKey
          /\ status' = argStatus
          /\ pc' = "getTransitions"
          /\ UNCHANGED <<err, exit>>
    /\ UNCHANGED <<mode, argKey, argStatus, reqs, out, prompts, list, issue,
                   transitions, match, issues, sprint, groups, runs>>

\* moveFlow with a key.
MoveWithKey ==
    /\ mode = "move"
    /\ pc = "start"
    /\ argKey # << >>
    /\ key' = argKey
    /\ pc' = "moveFetch"
    /\ UNCHANGED <<mode, argKey, argStatus, reqs, out, prompts, list, issue, status,
                   transitions, match, issues, sprint, err, exit, groups, runs>>

\* selectIssue up to its prompt: the fetch, the report, the filter.
SelectFetch ==
    /\ pc = "start"
    /\ mode = "interactive" \/ (mode = "move" /\ argKey = << >>)
    /\ \E res \in doJSON(TRUE) :
        /\ reqs' = Append(reqs, getIssues(res))
        /\ \/ /\ ~isError(res)
              /\ \E is \in FlowIssueLists :
                    /\ issues' = is
                    /\ out' = Append(out, printReport(is))
                    /\ list' = SelectSeq(is, selectFilter)
              /\ IF list' = << >>
                 THEN Succeed
                 ELSE pc' = "pickIssue" /\ UNCHANGED <<err, exit>>
           \/ /\ isError(res)
              /\ Fail(requestError(res))
              /\ UNCHANGED <<out, list, issues>>
    /\ UNCHANGED <<mode, argKey, argStatus, prompts, issue, status, key,
                   transitions, match, sprint, groups, runs>>

\* selectIssue from its prompt on, and what the flow does with the answer.
\* The issues fetched and the filtered list are locals of selectIssue; once it
\* has returned an issue, only that issue is left of them.
PickIssue ==
    /\ pc = "pickIssue"
    /\ \E line \in InputLines :
        LET r == pickFromList(Len(list), line)
        IN  /\ prompts' = Append(prompts, [label |-> IF mode = "move" THEN "Select issue to move"
                                                                     ELSE "Select issue",
                                           items |-> Len(list),
                                           line  |-> line])
            /\ \/ /\ r.kind = "readError"
                  /\ Fail(fatal("read error"))
                  /\ UNCHANGED <<issue, key, list, issues>>
               \/ /\ r.kind = "invalid"
                  /\ Fail(fatal("invalid selection"))
                  /\ UNCHANGED <<issue, key, list, issues>>
               \/ /\ r.kind = "cancel"
                  /\ Succeed
                  /\ UNCHANGED <<issue, key, list, issues>>
               \/ /\ r.kind = "index"
                  /\ issue' = list[r.idx + 1]
                  /\ list' = << >>
                  /\ issues' = << >>
                  /\ IF mode = "move"
                     THEN key' = issue'.key /\ pc' = "moveFetch"
                     ELSE key' = key /\ pc' = "pickStatus"
                  /\ UNCHANGED <<err, exit>>
    /\ UNCHANGED <<mode, argKey, argStatus, reqs, out, status,
                   transitions, match, sprint, groups, runs>>

\* interactiveFlow: the status menu.
PickStatus ==
    /\ pc = "pickStatus"
    /\ \E line \in InputLines :
        LET r == pickFromList(Len(statuses), line)
        IN  /\ prompts' = Append(prompts, [label |-> "Select new status",
                                           items |-> Len(statuses),
                                           line  |-> line])
            /\ \/ /\ r.kind = "readError"
                  /\ Fail(fatal("read error"))
                  /\ UNCHANGED <<key, status>>
               \/ /\ r.kind = "invalid"
                  /\ Fail(fatal("invalid selection"))
                  /\ UNCHANGED <<key, status>>
               \/ /\ r.kind = "cancel"
                  /\ Succeed
                  /\ UNCHANGED <<key, status>>
               \/ /\ r.kind = "index"
                  /\ key' = issue.key
                  /\ status' = statuses[r.idx + 1]
                  /\ pc' = "getTransitions"
                  /\ UNCHANGED <<err, exit>>
    /\ UNCHANGED <<mode, argKey, argStatus, reqs, out, list, issue,
                   transitions, match, issues, sprint, groups, runs>>

\* transitionIssue: the read of the transitions and the match.
GetTransitions ==
    /\ pc = "getTransitions"
    /\ \E res \in doJSON(TRUE) :
        /\ reqs' = Append(reqs, getTransitions(key, res))
        /\ \/ /\ ~isError(res)
              /\ \E ts \in TransitionLists :
                    /\ transitions' = ts
                    /\ IF matchTransition(ts, status) = 0
                       THEN /\ Fail(noTransitionError(ts, status, key))
                            /\ UNCHANGED match
                       ELSE /\ match' = ts[matchTransition(ts, status)]
                            /\ pc' = "postTransition"
                            /\ UNCHANGED <<err, exit>>
           \/ /\ isError(res)
              /\ Fail(requestError(res))
              /\ UNCHANGED <<transitions, match>>
    /\ UNCHANGED <<mode, argKey, argStatus, out, prompts, list, issue, status, key,
                   issues, sprint, groups, runs>>

\* transitionIssue: the submit, and what its caller does next.  The transitions
\* fetched are a local of transitionIssue, gone when the caller goes on.
PostTransition ==
    /\ pc = "postTransition"
    /\ \E res \in doJSON(FALSE) :
        /\ reqs' = Append(reqs, postTransition(key, match.id, res))
        /\ \/ /\ ~isError(res)
              /\ out' = Append(out, [kind |-> "transitioned", key |-> key, status |-> status])
              /\ IF mode = "interactive" /\ needsSprint(issue)
                 THEN /\ pc' = "moveFetch"
                      /\ transitions' = << >>
                      /\ UNCHANGED <<err, exit>>
                 ELSE /\ Succeed
                      /\ UNCHANGED transitions
           \/ /\ isError(res)
              /\ Fail(requestError(res))
              /\ UNCHANGED <<out, transitions>>
    /\ UNCHANGED <<mode, argKey, argStatus, prompts, list, issue, status, key,
                   match, issues, sprint, groups, runs>>

\* moveIssueToCurrentSprint: the fetch and findActiveSprint.
MoveFetch ==
    /\ pc = "moveFetch"
    /\ \E res \in doJSON(TRUE) :
        /\ reqs' = Append(reqs, getIssues(res))
        /\ \/ /\ ~isError(res)
              /\ \E is \in FlowIssueLists :
                    /\ issues' = is
                    /\ IF findActiveSprint(is) = Nil
                       THEN /\ Fail(noActiveSprintError)
                            /\ UNCHANGED sprint
                       ELSE /\ sprint' = findActiveSprint(is)
                            /\ pc' = "addToSprint"
                            /\ UNCHANGED <<err, exit>>
           \/ /\ isError(res)
              /\ Fail(requestError(res))
              /\ UNCHANGED <<issues, sprint>>
    /\ UNCHANGED <<mode, argKey, argStatus, out, prompts, list, issue, status, key,
                   transitions, match, groups, runs>>

\* moveIssueToCurrentSprint: addIssueToSprint, and the message of the flow.
\* The issues fetched are a local of moveIssueToCurrentSprint, gone on its return.
AddToSprint ==
    /\ pc = "addToSprint"
    /\ issues' = << >>
    /\ \E res \in doJSON(FALSE) :
        /\ reqs' = Append(reqs, addIssueToSprint(sprint.id, key, res))
        /\ \/ /\ ~isError(res)
              /\ out' = Append(out, [kind |-> "added",
                                     key |-> IF mode = "move" THEN ToUpper(key) ELSE key])
              /\ Succeed
           \/ /\ isError(res)
              /\ Fail(requestError(res))
              /\ UNCHANGED out
    /\ UNCHANGED <<mode, argKey, argStatus, prompts, list, issue, status, key,
                   transitions, match, sprint, groups, runs>>

Next ==
    \/ MainReport
    \/ MainDirect
    \/ MoveWithKey
    \/ SelectFetch
    \/ PickIssue
    \/ PickStatus
    \/ GetTransitions
    \/ PostTransition
    \/ MoveFetch
    \/ AddToSprint

Spec == Init /\ [][Next]_vars

-----------------------------------------------------------------------------
(* Claims about the flows. *)

\* The lower-case letter of each upper-case letter, by position in the alphabet.
CaseTable == [k \in 1..26 |-> <<UpperChars[k], LowerChars[k]>>]

LowerCaseOf == [c \in { CaseTable[k][1] : k \in 1..26 } |->
                   CaseTable[CHOOSE k \in 1..26 : CaseTable[k][1] = c][2]]

Lowered(s) == [i \in 1..Len(s) |-> IF s[i] \in DOMAIN LowerCaseOf THEN LowerCaseOf[s[i]] ELSE s[i]]

SameIgnoringCase(s, t) == Lowered(s) = Lowered(t)

ReqsOf(op) == { i \in 1..Len(reqs) : reqs[i].op = op }

OkReqsOf(op) == { i \in ReqsOf(op) : reqs[i].res = "ok" }

OutOf(kind) == { i \in 1..Len(out) : out[i].kind = kind }

IsPrefix(s, t) == Len(s) <= Len(t) /\ \A i \in 1..Len(s) : s[i] = t[i]

ReqOps == [i \in 1..Len(reqs) |-> reqs[i].op]

\* transitionIssue has read the transitions and has not yet returned to a
\* caller that goes on (its locals are gone then).
TransitionsRead ==
    /\ OkReqsOf("getTransitions") # {}
    /\ pc \in {"postTransition", "done"}
    /\ reqs[Len(reqs)].op \in {"getTransitions", "postTransition"}

Matching == { i \in 1..Len(transitions) : SameIgnoringCase(transitions[i].to, status) }

FirstMatching == CHOOSE i \in Matching : \A j \in Matching : i <= j

\* C1: transitionIssue fails with NoSuchTransition exactly when no transition's
\* target name equals the requested name case-insensitively, and then submits
\* nothing; otherwise it submits one request, with the id of the first
\* transition, in returned order, whose target name matches.
C1_FirstMatchingTransition ==
    /\ Cardinality(ReqsOf("postTransition")) <= 1
    /\ \A i \in ReqsOf("postTransition") :
          /\ reqs[i - 1] = getTransitions(key, "ok")
          /\ reqs[i] = postTransition(key, match.id, reqs[i].res)
          /\ SameIgnoringCase(match.to, status)
    /\ err.kind = "NoSuchTransition" => TransitionsRead
    /\ TransitionsRead =>
          /\ err.kind = "NoSuchTransition" <=> Matching = {}
          /\ Matching = {} => ReqsOf("postTransition") = {} /\ pc = "done" /\ exit = 1
          /\ Matching # {} =>
                /\ match = transitions[FirstMatching]
                /\ pc = "postTransition" => ReqsOf("postTransition") = {}
                /\ pc = "done" =>
                      \E i \in ReqsOf("postTransition") :
                          /\ reqs[i].arg = transitions[FirstMatching].id
                          /\ reqs[i].key = key

\* C1, witness: two transitions match the requested name and the request
\* submitted carries the id of the first.
C1_Witness ==
    /\ pc = "done"
    /\ Cardinality(Matching) = 2
    /\ OkReqsOf("postTransition") # {}
    /\ status # transitions[FirstMatching].to

InteractiveChain == <<"search", "getTransitions", "postTransition", "search", "addIssueToSprint">>

FlowChain ==
    IF mode = "report" THEN <<"search">>
    ELSE IF mode = "direct" THEN <<"getTransitions", "postTransition">>
    ELSE IF mode = "interactive" THEN InteractiveChain
    ELSE IF argKey = << >> THEN <<"search", "search", "addIssueToSprint">>
    ELSE <<"search", "addIssueToSprint">>

ActiveSprintsOf(is) ==
    { <<i, j>> \in (1..Len(is)) \X (1..MaxSprints + 1) :
          j <= Len(is[i].sprints) /\ SameIgnoringCase(is[i].sprints[j].state, ActiveWord) }

Earlier(a, b) == a[1] < b[1] \/ (a[1] = b[1] /\ a[2] <= b[2])

FirstActiveOf(is) ==
    LET all == ActiveSprintsOf(is)
        a   == CHOOSE a \in all : \A b \in all : Earlier(a, b)
    IN  is[a[1]].sprints[a[2]]

\* C3: findActiveSprint returns the first sprint whose state is "active"
\* case-insensitively, issues in order and each issue's sprints in order, and
\* fails with NoActiveSprint exactly when there is none;
\* moveIssueToCurrentSprint then adds the target key to that sprint, and makes
\* no add request when the resolution failed.
C3_FirstActiveSprint ==
    /\ pc = "addToSprint" =>
          /\ ActiveSprintsOf(issues) # {}
          /\ sprint = FirstActiveOf(issues)
          /\ reqs[Len(reqs)] = getIssues("ok")
    /\ err.kind = "NoActiveSprint" =>
          /\ ActiveSprintsOf(issues) = {}
          /\ sprint = Nil
          /\ reqs[Len(reqs)] = getIssues("ok")
    /\ (/\ mode \in {"move", "interactive"}
        /\ Len(reqs) = Len(FlowChain) - 1
        /\ reqs[Len(reqs)] = getIssues("ok")) =>
          \/ pc = "addToSprint" /\ err = Nil
          \/ pc = "done" /\ err.kind = "NoActiveSprint" /\ exit = 1
    /\ sprint = Nil => ReqsOf("addIssueToSprint") = {}
    /\ Cardinality(ReqsOf("addIssueToSprint")) <= 1
    /\ \A i \in ReqsOf("addIssueToSprint") :
          /\ i = Len(reqs)
          /\ reqs[i - 1] = getIssues("ok")
          /\ reqs[i].arg = sprint.id
          /\ reqs[i].key = IF argKey # << >> THEN argKey ELSE issue.key

\* C3, witness: the key given is not the key of any issue the tracker returns,
\* the sprint resolved is one whose state is not spelled "active", and the key
\* was added to it.
C3_Witness ==
    /\ mode = "move"
    /\ argKey = <<"a", "b", "-", "9">>
    /\ OkReqsOf("addIssueToSprint") # {}
    /\ sprint.state # ActiveWord
    /\ reqs[Len(reqs)].arg = sprint.id

IsEmptyAnswer(line) ==
    /\ line # << >>
    /\ line[Len(line)] = "\n"
    /\ \A i \in 1..Len(line) : line[i] \in {" ", "\t", "\r", "\n"}

Cancelled == prompts # << >> /\ IsEmptyAnswer(prompts[Len(prompts)].line)

\* C4: in the interactive flow an empty answer at the issue prompt or at the
\* status prompt ends the flow successfully, and the only remote request made
\* is the first search: no transition is submitted, nothing is added to a sprint.
C4_CancelStopsSilently ==
    (mode = "interactive" /\ Cancelled) =>
        /\ pc = "done"
        /\ exit = 0
        /\ err = Nil
        /\ reqs = <<getIssues("ok")>>
        /\ OutOf("transitioned") = {}
        /\ OutOf("added") = {}

\* C4, witness: an issue was chosen and the status prompt was cancelled.
C4_Witness ==
    /\ mode = "interactive"
    /\ Len(prompts) = 2
    /\ Cancelled
    /\ issue # Nil
    /\ pc = "done"

\* C5: in the interactive flow, once an issue and a status are chosen,
\* moveIssueToCurrentSprint is called exactly when the transition succeeded and
\* the issue as selected had no sprint; the requests come in the order search,
\* read transitions, submit, search, add; the sprint added to is the first
\* active one of the second search.
C5_MoveAfterTransition ==
    (mode = "interactive" /\ status # << >>) =>
        /\ IsPrefix(ReqOps, InteractiveChain)
        /\ pc \in {"moveFetch", "addToSprint"} =>
              /\ Len(issue.sprints) = 0
              /\ OkReqsOf("postTransition") # {}
        /\ pc = "moveFetch" => Len(reqs) = 3
        /\ pc = "addToSprint" => Len(reqs) = 4 /\ sprint = FirstActiveOf(issues)
        /\ pc = "done" =>
              (Len(reqs) >= 4 <=> (Len(issue.sprints) = 0 /\ OkReqsOf("postTransition") # {}))
        /\ \A i \in ReqsOf("addIssueToSprint") :
              /\ reqs[i].key = issue.key
              /\ reqs[i].arg = sprint.id
              /\ \A j \in 1..(i - 1) : reqs[j].res = "ok"

\* C5, witness: all five requests were made, for an issue selected without a
\* sprint, and the last one added it to the sprint resolved.
C5_Witness ==
    /\ mode = "interactive"
    /\ ReqOps = InteractiveChain
    /\ reqs[5] = addIssueToSprint(sprint.id, issue.key, "ok")
    /\ Len(issue.sprints) = 0
    /\ pc = "done"

\* selectIssue has fetched `issues` (it has not returned an issue: they are gone
\* then) and its filter matches none of them.
NoneSelectable ==
    /\ reqs = <<getIssues("ok")>>
    /\ issue = Nil
    /\ IF mode = "move" THEN \A i \in 1..Len(issues) : Len(issues[i].sprints) # 0
       ELSE issues = << >>

LabelsOf(is) == { sprintName(is[i].sprints) : i \in 1..Len(is) }

\* C8: when the filter of selectIssue matches none of the issues fetched, it
\* returns no selection: the report was printed, no prompt was shown and no
\* input read; the move-only flow without a key then ends successfully and
\* makes no add request.
C8_NothingToSelect ==
    (/\ mode \in {"move", "interactive"}
     /\ argKey = << >>
     /\ NoneSelectable) =>
        /\ pc = "done"
        /\ exit = 0
        /\ err = Nil
        /\ prompts = << >>
        /\ ReqsOf("addIssueToSprint") = {}
        /\ out = <<[kind |-> "report", lines |-> Len(issues) + 2 * Cardinality(LabelsOf(issues))]>>

\* C8, witness: the move-only flow fetched issues, every one of them in a sprint.
C8_Witness ==
    /\ mode = "move"
    /\ argKey = << >>
    /\ Len(issues) = MaxIssues
    /\ NoneSelectable
    /\ pc = "done"

\* C10: nothing is retried or recovered: every request of a flow is made at
\* most once, in the order of the flow; a request that fails is the last one,
\* and the flow ends with its error and exit code 1; after NoSuchTransition or
\* NoActiveSprint no request follows either; a success message is printed only
\* for a step that succeeded.
C10_NoRetryNoRecovery ==
    /\ IsPrefix(ReqOps, FlowChain)
    /\ \A i \in 1..Len(reqs) :
          reqs[i].res # "ok" =>
              /\ i = Len(reqs)
              /\ pc = "done"
              /\ exit = 1
              /\ err.kind = reqs[i].res
    /\ err # Nil => pc = "done" /\ exit = 1 /\ ~ENABLED Next
    /\ err.kind = "NoSuchTransition" => reqs[Len(reqs)].op = "getTransitions"
    /\ err.kind = "NoActiveSprint" => reqs[Len(reqs)].op = "search"
    /\ Cardinality(OutOf("transitioned")) = Cardinality(OkReqsOf("postTransition"))
    /\ Cardinality(OutOf("added")) = Cardinality(OkReqsOf("addIssueToSprint"))
    /\ exit = 0 => err = Nil /\ \A i \in 1..Len(reqs) : reqs[i].res = "ok"

\* C10, witness: in the interactive flow the submit of the transition was
\* refused by the tracker; the flow ended there.
C10_Witness ==
    /\ mode = "interactive"
    /\ Len(reqs) = 3
    /\ reqs[3].op = "postTransition"
    /\ reqs[3].res = "status"
    /\ Len(issue.sprints) = 0
    /\ pc = "done"
    /\ exit = 1

====
